---- MODULE Spec2Model ----
(***************************************************************************)
(* A model of src/app.py: the AmazonScraper extraction pipeline            *)
(* (clean_price, extract_buybox_info, extract_other_sellers, scrape_asin)  *)
(* and the batch loop of main.                                             *)
(*                                                                         *)
(* Text is a sequence of one-character strings.  A Python value that may   *)
(* be None, a str or a float is a record [t, s, n]: t is "none", "str" or  *)
(* "num"; a float is held in hundredths (n), which is exact for every      *)
(* number the price patterns can produce.                                  *)
(***************************************************************************)
EXTENDS Integers, Sequences, FiniteSets, TLC

\* ------------------------------------------------------------------ values

None == [t |-> "none", s |-> <<>>, n |-> 0]

Str(s) == [t |-> "str", s |-> s, n |-> 0]

Num(cents) == [t |-> "num", s |-> <<>>, n |-> cents]

\* Python truthiness of a value: None, "" and 0.0 are falsy.
Truthy(v) ==
    \/ v.t = "str" /\ v.s # <<>>
    \/ v.t = "num" /\ v.n # 0

\* A node a locator returned: found is FALSE when the locator matched nothing.
NoNode == [found |-> FALSE, text |-> <<>>]

Node(text) == [found |-> TRUE, text |-> text]

\* -------------------------------------------------------------------- text

Digits == {"0", "1", "2", "3", "4", "5", "6", "7", "8", "9"}

IsDigit(c) == c \in Digits

DigitVal(c) ==
    CASE c = "0" -> 0 [] c = "1" -> 1 [] c = "2" -> 2 [] c = "3" -> 3
      [] c = "4" -> 4 [] c = "5" -> 5 [] c = "6" -> 6 [] c = "7" -> 7
      [] c = "8" -> 8 [] c = "9" -> 9

IsSpace(c) == c \in {" ", "\n", "\t"}

\* s[a..b], empty when a > b.
Slice(s, a, b) == IF a > b THEN <<>> ELSE SubSeq(s, a, b)

\* str.strip(): drop leading and trailing whitespace.
Strip(s) ==
    LET keep == {k \in 1..Len(s) : ~IsSpace(s[k])}
    IN  IF keep = {} THEN <<>>
        ELSE LET lo == CHOOSE k \in keep : \A m \in keep : k <= m
                 hi == CHOOSE k \in keep : \A m \in keep : k >= m
             IN  SubSeq(s, lo, hi)

\* str.replace(',', ''): drop every comma.
RECURSIVE StripCommas(_)
StripCommas(s) ==
    IF s = <<>> THEN <<>>
    ELSE IF Head(s) = "," THEN StripCommas(Tail(s))
    ELSE <<Head(s)>> \o StripCommas(Tail(s))

\* The integer a run of digits denotes.
RECURSIVE DigitsToInt(_)
DigitsToInt(s) ==
    IF s = <<>> THEN 0
    ELSE 10 * DigitsToInt(SubSeq(s, 1, Len(s) - 1)) + DigitVal(s[Len(s)])

\* float() of a text of digits with an optional '.' and fraction digits, in
\* hundredths.  Defined on the texts the price patterns capture: no fraction,
\* or a fraction of exactly two digits.
FloatCents(s) ==
    LET dots == {k \in 1..Len(s) : s[k] = "."}
    IN  IF dots = {} THEN 100 * DigitsToInt(s)
        ELSE LET d == CHOOSE k \in dots : TRUE
             IN  100 * DigitsToInt(Slice(s, 1, d - 1))
                   + DigitsToInt(Slice(s, d + 1, Len(s)))

\* s has d digits at positions p .. p+d-1.
DigitsAt(s, p, d) ==
    /\ p >= 1
    /\ p + d - 1 <= Len(s)
    /\ \A k \in 0..(d - 1) : IsDigit(s[p + k])

\* s has g groups ",ddd" from position p on: the (?:,\d{3})* part.
GroupsAt(s, p, g) ==
    \A j \in 0..(g - 1) :
        /\ p + 4 * j <= Len(s)
        /\ s[p + 4 * j] = ","
        /\ DigitsAt(s, p + 4 * j + 1, 3)

\* ------------------------------------------------------------- clean_price

\* \$?(\d{1,3}(?:,\d{3})*\.\d{2}) matched from start position i with the
\* optional '$' taken (dollar = 1) or not (0), d leading digits and g groups.
\* The captured group is s[i+dollar .. i+dollar+d+4g+2].
Pattern1At(s, i, dollar, d, g) ==
    LET q == i + dollar
        e == q + d + 4 * g
    IN  /\ dollar = 1 => (i <= Len(s) /\ s[i] = "$")
        /\ DigitsAt(s, q, d)
        /\ GroupsAt(s, q + d, g)
        /\ e <= Len(s)
        /\ s[e] = "."
        /\ DigitsAt(s, e + 1, 2)

\* \$?(\d{1,3}(?:,\d{3})*) likewise; the group is s[i+dollar .. i+dollar+d+4g-1].
Pattern2At(s, i, dollar, d, g) ==
    LET q == i + dollar
    IN  /\ dollar = 1 => (i <= Len(s) /\ s[i] = "$")
        /\ DigitsAt(s, q, d)
        /\ GroupsAt(s, q + d, g)

\* The choices re.search tries, as <<start, dollar, d, g>>.
PatternChoices(s) ==
    (1..Len(s)) \X {0, 1} \X (1..3) \X (0..(Len(s) \div 4))

\* re.search's order of trial: leftmost start first; at a start the greedy
\* '$' before none, more leading digits before fewer, more groups before fewer.
Earlier(a, b) ==
    \/ a[1] < b[1]
    \/ a[1] = b[1] /\ a[2] > b[2]
    \/ a[1] = b[1] /\ a[2] = b[2] /\ a[3] > b[3]
    \/ a[1] = b[1] /\ a[2] = b[2] /\ a[3] = b[3] /\ a[4] > b[4]

FirstChoice(S) == CHOOSE a \in S : \A b \in S : a = b \/ Earlier(a, b)

Pattern1Matches(s) ==
    {c \in PatternChoices(s) : Pattern1At(s, c[1], c[2], c[3], c[4])}

Pattern2Matches(s) ==
    {c \in PatternChoices(s) : Pattern2At(s, c[1], c[2], c[3], c[4])}

\* match.group(1) of the first pattern.
Pattern1Group(s) ==
    LET c == FirstChoice(Pattern1Matches(s))
        q == c[1] + c[2]
    IN  SubSeq(s, q, q + c[3] + 4 * c[4] + 2)

\* match.group(1) of the second pattern.
Pattern2Group(s) ==
    LET c == FirstChoice(Pattern2Matches(s))
        q == c[1] + c[2]
    IN  SubSeq(s, q, q + c[3] + 4 * c[4] - 1)

\* re.findall(r'\d+\.?\d*', s): the non-overlapping matches, left to right.
RECURSIVE DigitRuns(_)
DigitRuns(s) ==
    LET starts == {k \in 1..Len(s) : IsDigit(s[k])}
    IN  IF starts = {} THEN <<>>
        ELSE LET p  == CHOOSE k \in starts : \A m \in starts : k <= m
                 e1 == CHOOSE e \in p..Len(s) :
                          /\ DigitsAt(s, p, e - p + 1)
                          /\ (e = Len(s) \/ ~IsDigit(s[e + 1]))
                 e2 == IF e1 < Len(s) /\ s[e1 + 1] = "." THEN e1 + 1 ELSE e1
                 e3 == IF e2 = e1 THEN e1
                       ELSE CHOOSE e \in e2..Len(s) :
                               /\ \A k \in (e2 + 1)..e : IsDigit(s[k])
                               /\ (e = Len(s) \/ ~IsDigit(s[e + 1]))
             IN  <<SubSeq(s, p, e3)>> \o DigitRuns(Slice(s, e3 + 1, Len(s)))

\* Whether a candidate of method 2 is returned: exactly two fraction digits,
\* or no '.' and at most six digits.
RunAccepted(c) ==
    LET dots == {k \in 1..Len(c) : c[k] = "."}
    IN  \/ dots # {} /\ Len(c) - (CHOOSE k \in dots : TRUE) = 2
        \/ dots = {} /\ Len(c) <= 6

\* Method 2: the first candidate that looks like a price, or None.
Method2(s) ==
    LET runs == DigitRuns(s)
        ok   == {k \in 1..Len(runs) : RunAccepted(runs[k])}
    IN  IF ok = {} THEN None
        ELSE Num(FloatCents(runs[CHOOSE k \in ok : \A m \in ok : k <= m]))

\* clean_price(price_text) for a value that is None or a str.
clean_price(price_text) ==
    IF ~Truthy(price_text) THEN None
    ELSE LET price_str == Strip(price_text.s)
         IN  IF Pattern1Matches(price_str) # {}
                 THEN Num(FloatCents(StripCommas(Pattern1Group(price_str))))
             ELSE IF Pattern2Matches(price_str) # {}
                 THEN Num(FloatCents(StripCommas(Pattern2Group(price_str))))
             ELSE IF Method2(price_str) # None
                 THEN Method2(price_str)
             ELSE IF price_str # <<>> THEN Str(price_str) ELSE None


\* ------------------------------------------------------- regular expressions

LowerChar(c) ==
    CASE c = "A" -> "a" [] c = "B" -> "b" [] c = "C" -> "c" [] c = "D" -> "d"
      [] c = "E" -> "e" [] c = "F" -> "f" [] c = "G" -> "g" [] c = "H" -> "h"
      [] c = "I" -> "i" [] c = "J" -> "j" [] c = "K" -> "k" [] c = "L" -> "l"
      [] c = "M" -> "m" [] c = "N" -> "n" [] c = "O" -> "o" [] c = "P" -> "p"
      [] c = "Q" -> "q" [] c = "R" -> "r" [] c = "S" -> "s" [] c = "T" -> "t"
      [] c = "U" -> "u" [] c = "V" -> "v" [] c = "W" -> "w" [] c = "X" -> "x"
      [] c = "Y" -> "y" [] c = "Z" -> "z" [] OTHER -> c

\* str.lower().
Lower(s) == [k \in 1..Len(s) |-> LowerChar(s[k])]

\* lit occurs in s at position p.
MatchesAt(s, p, lit) ==
    /\ p >= 1
    /\ p + Len(lit) - 1 <= Len(s)
    /\ \A k \in 1..Len(lit) : s[p + k - 1] = lit[k]

\* lit in s (Python's substring test).
Contains(s, lit) == \E p \in 1..(Len(s) + 1) : MatchesAt(s, p, lit)

\* str.startswith(lit).
StartsWith(s, lit) == MatchesAt(s, 1, lit)

\* A character [^.\n] matches.
IsNameChar(c) == c \notin {".", "\n"}

\* The result of a search: found is FALSE when the pattern matched nothing.
NoMatch == [found |-> FALSE, text |-> <<>>]

Match(text) == [found |-> TRUE, text |-> text]

\* The least of a non-empty set of integers, and the greatest.
Min(S) == CHOOSE k \in S : \A m \in S : k <= m

Max(S) == CHOOSE k \in S : \A m \in S : k >= m

\* lit occurs in s at position p, case ignored.
MatchesAtI(s, p, lit) ==
    /\ p >= 1
    /\ p + Len(lit) - 1 <= Len(s)
    /\ \A k \in 1..Len(lit) : LowerChar(s[p + k - 1]) = LowerChar(lit[k])

\* The number of whitespace characters of s from position p on.
RECURSIVE SpaceRun(_, _)
SpaceRun(s, p) ==
    IF p > Len(s) \/ ~IsSpace(s[p]) THEN 0 ELSE 1 + SpaceRun(s, p + 1)

\* The number of [^.\n] characters of s from position p on.
RECURSIVE NameRun(_, _)
NameRun(s, p) ==
    IF p > Len(s) \/ ~IsNameChar(s[p]) THEN 0 ELSE 1 + NameRun(s, p + 1)

\* re.search(lit \s{minws,} ([^.\n]+), s, re.IGNORECASE): group(1).  The
\* leftmost occurrence of lit wins; the whitespace is greedy and gives back
\* characters only to let the group match; the group is greedy.
CaptureAfter(s, lit, minws) ==
    LET n == Len(lit)
        Gaps(i) == {a \in minws..SpaceRun(s, i + n) : NameRun(s, i + n + a) > 0}
        starts == {i \in 1..Len(s) : MatchesAtI(s, i, lit) /\ Gaps(i) # {}}
    IN  IF starts = {} THEN NoMatch
        ELSE LET i == Min(starts)
                 q == i + n + Max(Gaps(i))
             IN  Match(SubSeq(s, q, q + NameRun(s, q) - 1))

\* re.search(lit \s+ ([^.\n]+?) (?:\s|$), s, re.IGNORECASE): group(1).  The
\* group is lazy: the shortest run that is followed by whitespace or the end.
CaptureWordAfter(s, lit) ==
    LET n == Len(lit)
        Words(q) == {b \in 1..NameRun(s, q) :
                        q + b - 1 = Len(s) \/ IsSpace(s[q + b])}
        Gaps(i) == {a \in 1..SpaceRun(s, i + n) : Words(i + n + a) # {}}
        starts == {i \in 1..Len(s) : MatchesAtI(s, i, lit) /\ Gaps(i) # {}}
    IN  IF starts = {} THEN NoMatch
        ELSE LET i == Min(starts)
                 q == i + n + Max(Gaps(i))
             IN  Match(SubSeq(s, q, q + Min(Words(q)) - 1))

\* re.sub(r'^(lit\s+)', '', s, flags=re.IGNORECASE) for one alternative lit,
\* given as its words: the words are separated by \s+ and followed by \s+.
RECURSIVE PrefixEnds(_, _, _)
PrefixEnds(s, p, words) ==
    IF words = <<>> THEN {p}
    ELSE IF ~MatchesAtI(s, p, Head(words)) THEN {}
    ELSE LET q == p + Len(Head(words))
             a == SpaceRun(s, q)
         IN  IF a = 0 THEN {} ELSE PrefixEnds(s, q + a, Tail(words))

\* The text with the first alternative that matches at its start removed.
StripPrefix(s, alternatives) ==
    LET hit == {k \in 1..Len(alternatives) :
                   PrefixEnds(s, 1, alternatives[k]) # {}}
    IN  IF hit = {} THEN s
        ELSE LET e == CHOOSE p \in PrefixEnds(s, 1, alternatives[Min(hit)]) : TRUE
             IN  Slice(s, e, Len(s))

\* ------------------------------------------------------ the primary document
\* A parsed primary document (soup) is what its locators return:
\*   title_nodes[k]       soup.select_one(title_selectors[k])
\*   page_text            soup.get_text()
\*   price_containers     soup.find_all('span', class_='a-price'), each with its
\*                        a-price-whole and a-price-fraction sub-nodes
\*   price_nodes[k]       soup.select_one(price_selectors[k])
\*   seller_nodes[k]      soup.select_one(seller_selectors[k])
\*   fulfillment_nodes[k] soup.select_one(fulfillment_containers[k])
\*   link_nodes[k]        soup.select_one(offer_selectors[k]), with its href

\* The first index at which a sequence of tests holds, or 0: the candidate a
\* for loop with a break stops at.
FirstIndex(flags) ==
    LET hit == {k \in 1..Len(flags) : flags[k]}
    IN  IF hit = {} THEN 0 ELSE Min(hit)

IsFound(node) == node.found

\* scrape_asin: the title is the stripped text of the first title candidate
\* whose stripped text is not empty.
Title(soup) ==
    LET HasText(node) == node.found /\ Strip(node.text) # <<>>
        k == FirstIndex([nth \in 1..Len(soup.title_nodes) |-> HasText(soup.title_nodes[nth])])
    IN  IF k = 0 THEN <<"T", "i", "t", "l", "e", " ", "n", "o", "t", " ", "f", "o", "u", "n", "d">>
        ELSE Strip(soup.title_nodes[k].text)

unavailable_indicators ==
    << <<"C", "u", "r", "r", "e", "n", "t", "l", "y", " ", "u", "n", "a", "v", "a", "i", "l", "a", "b", "l", "e">>,
       <<"T", "h", "i", "s", " ", "i", "t", "e", "m", " ", "i", "s", " ", "n", "o", "t", " ", "a", "v", "a", "i", "l", "a", "b", "l", "e">>,
       <<"P", "a", "g", "e", " ", "N", "o", "t", " ", "F", "o", "u", "n", "d">>,
       <<"S", "o", "r", "r", "y", ",", " ", "w", "e", " ", "j", "u", "s", "t", " ", "r", "a", "n", " ", "o", "u", "t">>,
       <<"O", "u", "t", " ", "o", "f", " ", "s", "t", "o", "c", "k">> >>

\* scrape_asin: no indicator is a substring of the page text.
IsAvailable(soup) ==
    ~\E k \in 1..Len(unavailable_indicators) :
        Contains(soup.page_text, unavailable_indicators[k])

\* extract_buybox_info, method 1: the first a-price span that has a whole
\* part gives "<whole>.<fraction>", or the whole part alone.
WidgetPrice(container) ==
    LET whole_price == Strip(container.whole.text)
    IN  IF container.fraction.found
            THEN whole_price \o <<".">> \o Strip(container.fraction.text)
        ELSE whole_price

\* extract_buybox_info: the buy-box price.
BuyboxPrice(soup) ==
    LET HasWhole(container) == container.whole.found
        w == FirstIndex([nth \in 1..Len(soup.price_containers) |-> HasWhole(soup.price_containers[nth])])
        k == FirstIndex([nth \in 1..Len(soup.price_nodes) |-> IsFound(soup.price_nodes[nth])])
    IN  IF w # 0 THEN clean_price(Str(WidgetPrice(soup.price_containers[w])))
        ELSE IF k # 0 THEN clean_price(Str(soup.price_nodes[k].text))
        ELSE None

\* extract_buybox_info: the buy-box seller, the text of the first seller
\* candidate that matches, without a leading "by " or "sold by ".
BuyboxSeller(soup) ==
    LET k == FirstIndex([nth \in 1..Len(soup.seller_nodes) |-> IsFound(soup.seller_nodes[nth])])
    IN  IF k = 0 THEN None
        ELSE Str(StripPrefix(Strip(soup.seller_nodes[k].text),
                             << <<<<"b", "y">>>>, <<<<"s", "o", "l", "d">>, <<"b", "y">>>> >>))

\* The first pattern of a list that matches text, as <<literal, minimum
\* whitespace>> pairs: re.search(pattern, text, re.IGNORECASE).
FirstCapture(text, patterns) ==
    LET Hits(p) == CaptureAfter(text, p[1], p[2]).found
        k == FirstIndex([nth \in 1..Len(patterns) |-> Hits(patterns[nth])])
    IN  IF k = 0 THEN NoMatch
        ELSE CaptureAfter(text, patterns[k][1], patterns[k][2])

ships_patterns ==
    << <<<<"S", "h", "i", "p", "s", " ", "f", "r", "o", "m">>, 1>>, <<<<"S", "h", "i", "p", "p", "e", "d", " ", "f", "r", "o", "m">>, 1>>, <<<<"S", "h", "i", "p", "s", " ", "f", "r", "o", "m", ":">>, 0>> >>

sold_patterns == << <<<<"S", "o", "l", "d", " ", "b", "y">>, 1>>, <<<<"S", "o", "l", "d", " ", "b", "y", ":">>, 0>> >>

\* One fulfillment field after one container: the first pattern that matches
\* sets the field when it is still unset (None or ''), and nothing else does.
FulfillmentField(current, text, patterns) ==
    LET m == FirstCapture(text, patterns)
    IN  IF m.found /\ ~Truthy(current) THEN Str(Strip(m.text)) ELSE current

\* extract_buybox_info: ships-from and sold-by after the containers from k on.
RECURSIVE Fulfillment(_, _, _, _)
Fulfillment(nodes, k, ships, sold) ==
    IF k > Len(nodes) THEN <<ships, sold>>
    ELSE IF ~nodes[k].found THEN Fulfillment(nodes, k + 1, ships, sold)
    ELSE LET s1 == FulfillmentField(ships, nodes[k].text, ships_patterns)
             s2 == FulfillmentField(sold, nodes[k].text, sold_patterns)
         IN  IF Truthy(s1) /\ Truthy(s2) THEN <<s1, s2>>
             ELSE Fulfillment(nodes, k + 1, s1, s2)

extract_buybox_info(soup) ==
    LET f == Fulfillment(soup.fulfillment_nodes, 1, None, None)
    IN  [buybox_price      |-> BuyboxPrice(soup),
         buybox_seller     |-> BuyboxSeller(soup),
         buybox_ships_from |-> f[1],
         buybox_sold_by    |-> f[2]]

\* ------------------------------------------------------- the offers document
\* A parsed offers document (offers_soup) is what its locators return:
\*   container_matches[k]  offers_soup.select(container_selectors[k])
\*   all_divs              offers_soup.find_all('div')
\* and an offer container is
\*   text          container.get_text()
\*   offscreen     container.find('span', class_='a-offscreen')
\*   price_span    container.find('span', class_='a-price') with its whole,
\*                 fraction and decimal sub-nodes
\*   seller_links  the texts of container.find_all('a', href=re.compile('seller='))
\*   spans         the strings of the container's other span elements

\* A key a dict does not hold.
Missing == [t |-> "missing", s |-> <<>>, n |-> 0]

\* seller_data = {}.
EmptySeller ==
    [price |-> Missing, seller_name |-> Missing, condition |-> Missing,
     shipping |-> Missing, ships_from |-> Missing, sold_by |-> Missing]

\* dict.get(key, default) of a value looked up in a dict.
Get(v, default) == IF v = Missing THEN default ELSE v

\* \$(\d{1,3}(?:,\d{3})*(?:\.\d{2})?) matched at the '$' at position i with d
\* leading digits, g groups and the fraction taken (f = 1) or not (0).
DollarAt(s, i, d, g, f) ==
    LET e == i + 1 + d + 4 * g
    IN  /\ i <= Len(s)
        /\ s[i] = "$"
        /\ DigitsAt(s, i + 1, d)
        /\ GroupsAt(s, i + 1 + d, g)
        /\ f = 1 => (e <= Len(s) /\ s[e] = "." /\ DigitsAt(s, e + 1, 2))

\* re.findall of that pattern over the text, first element: the leftmost
\* match, every part of it greedy.
FirstDollarAmount(s) ==
    LET all == {c \in PatternChoices(s) :
                   DollarAt(s, c[1], c[3], c[4], c[2])}
    IN  IF all = {} THEN NoMatch
        ELSE LET i == Min({c[1] : c \in all})
                 d == Max({c[3] : c \in {x \in all : x[1] = i}})
                 g == Max({c[4] : c \in {x \in all : x[1] = i /\ x[3] = d}})
                 f == Max({c[2] : c \in {x \in all : x[1] = i /\ x[3] = d
                                                       /\ x[4] = g}})
             IN  Match(SubSeq(s, i + 1, i + d + 4 * g + 3 * f))

\* extract_other_sellers, method 2: the price text built from the parts of
\* the a-price span.
PartsPrice(price_span) ==
    LET whole_text == StripCommas(Strip(price_span.whole.text))
    IN  IF ~price_span.fraction.found THEN whole_text
        ELSE IF price_span.decimal.found
            THEN whole_text \o Strip(price_span.decimal.text)
                            \o Strip(price_span.fraction.text)
        ELSE whole_text \o <<".">> \o Strip(price_span.fraction.text)

\* extract_other_sellers: the 'price' entry of seller_data, Missing when no
\* method set it.
OfferPrice(container) ==
    LET p1 == IF container.offscreen.found
                  THEN clean_price(Str(Strip(container.offscreen.text)))
              ELSE None
        p2 == IF container.price_span.found /\ container.price_span.whole.found
                  THEN clean_price(Str(PartsPrice(container.price_span)))
              ELSE None
        m  == FirstDollarAmount(container.text)
    IN  IF Truthy(p1) THEN p1
        ELSE IF Truthy(p2) THEN p2
        ELSE IF m.found THEN clean_price(Str(m.text))
        ELSE Missing

\* extract_other_sellers: the seller name from the seller profile links.
LinkSellerName(container) ==
    LET Named(text) ==
            /\ Strip(text) # <<>>
            /\ Lower(Strip(text)) \notin {<<"a", "m", "a", "z", "o", "n">>, <<"a", "m", "a", "z", "o", "n", ".", "c", "o", "m">>}
        k == FirstIndex([nth \in 1..Len(container.seller_links) |-> Named(container.seller_links[nth])])
    IN  IF k = 0 THEN Missing
        ELSE Str(StripPrefix(Strip(container.seller_links[k]), << <<<<"b", "y">>>> >>))

seller_patterns == << <<"S", "o", "l", "d", " ", "b", "y">>, <<"S", "h", "i", "p", "s", " ", "f", "r", "o", "m", " ", "a", "n", "d", " ", "s", "o", "l", "d", " ", "b", "y">>, <<"b", "y">> >>

\* extract_other_sellers: the seller name from the container text, by the
\* first pattern whose match has more than two characters.
TextSellerName(text) ==
    LET Good(lit) ==
            LET m == CaptureWordAfter(text, lit)
            IN  m.found /\ Len(Strip(m.text)) > 2
        k == FirstIndex([nth \in 1..Len(seller_patterns) |-> Good(seller_patterns[nth])])
    IN  IF k = 0 THEN Missing
        ELSE Str(Strip(CaptureWordAfter(text, seller_patterns[k]).text))

OfferSellerName(container) ==
    IF LinkSellerName(container) # Missing THEN LinkSellerName(container)
    ELSE TextSellerName(container.text)

condition_keywords ==
    << <<"N", "e", "w">>, <<"U", "s", "e", "d">>, <<"R", "e", "f", "u", "r", "b", "i", "s", "h", "e", "d">>, <<"C", "o", "l", "l", "e", "c", "t", "i", "b", "l", "e">>, <<"R", "e", "n", "e", "w", "e", "d">> >>

\* A slip in the search of the condition: the last keyword that occurs wins.
OfferConditionLast(text) ==
    LET low == Lower(text)
        hit == {k \in 1..Len(condition_keywords) :
                   Contains(low, Lower(condition_keywords[k]))}
    IN  IF hit = {} THEN Missing ELSE Str(condition_keywords[Max(hit)])


\* extract_other_sellers: the first keyword whose lower case occurs in the
\* lower-cased container text.
OfferCondition(text) ==
    LET low == Lower(text)
        Occurs(keyword) == Contains(low, Lower(keyword))
        k == FirstIndex([nth \in 1..Len(condition_keywords) |-> Occurs(condition_keywords[nth])])
    IN  IF k = 0 THEN Missing ELSE Str(condition_keywords[k])

\* A shipping pattern is a sequence of parts: <<"lit", alternatives>> (one of
\* the texts, case-insensitive), <<"ws", min>> (\s+ or \s*), <<"digits", min>>
\* (\d+ or \d{2}, max = min when exact is TRUE).
Lit(alternatives) == [kind |-> "lit", alts |-> alternatives, min |-> 0, exact |-> FALSE]

Ws(min) == [kind |-> "ws", alts |-> <<>>, min |-> min, exact |-> FALSE]

DigitRun(min, exact) == [kind |-> "digits", alts |-> <<>>, min |-> min, exact |-> exact]

\* The positions just after a match of the parts from position p of s.
RECURSIVE PartsEnds(_, _, _)
PartsEnds(s, p, parts) ==
    IF parts = <<>> THEN {p}
    ELSE LET part == Head(parts)
             lens == IF part.exact THEN {part.min} ELSE part.min..Len(s)
             next ==
                 CASE part.kind = "lit" ->
                        {p + Len(part.alts[k]) : k \in
                            {j \in 1..Len(part.alts) :
                                MatchesAtI(s, p, part.alts[j])}}
                   [] part.kind = "ws" ->
                        {p + a : a \in part.min..SpaceRun(s, p)}
                   [] part.kind = "digits" ->
                        {p + d : d \in {x \in lens : DigitsAt(s, p, x)}}
         IN  UNION {PartsEnds(s, q, Tail(parts)) : q \in next}

\* re.search(pattern, s, re.IGNORECASE).group(1) for a pattern that is one
\* group of such parts: the leftmost match (its end is determined by its
\* start for the shipping patterns).
SearchParts(s, parts) ==
    LET starts == {i \in 1..Len(s) : PartsEnds(s, i, parts) # {}}
    IN  IF starts = {} THEN NoMatch
        ELSE LET i == Min(starts)
             IN  Match(SubSeq(s, i, Max(PartsEnds(s, i, parts)) - 1))

PaidShipping ==
    << Lit(<<<<"$">>>>), DigitRun(1, FALSE), Lit(<<<<".">>>>), DigitRun(2, TRUE),
       Ws(1), Lit(<<<<"s", "h", "i", "p", "p", "i", "n", "g">>>>) >>

shipping_patterns ==
    << PaidShipping,
       << Lit(<<<<"F", "R", "E", "E">>>>), Ws(1), Lit(<<<<"S", "h", "i", "p", "p", "i", "n", "g">>, <<"d", "e", "l", "i", "v", "e", "r", "y">>>>) >>,
       << Lit(<<<<"+">>>>), Ws(0) >> \o PaidShipping,
       << Lit(<<<<"P", "r", "i", "m", "e">>>>), Ws(1), Lit(<<<<"F", "R", "E", "E">>>>), Ws(1), Lit(<<<<"D", "e", "l", "i", "v", "e", "r", "y">>>>) >> >>

\* extract_other_sellers: the text of the first shipping pattern that matches.
OfferShipping(text) ==
    LET Hits(parts) == SearchParts(text, parts).found
        k == FirstIndex([nth \in 1..Len(shipping_patterns) |-> Hits(shipping_patterns[nth])])
    IN  IF k = 0 THEN Missing
        ELSE Str(Strip(SearchParts(text, shipping_patterns[k]).text))

\* extract_other_sellers: a fulfillment entry, re.search over the container
\* text, stripped; Missing when the pattern does not match.
OfferFulfillment(text, lit) ==
    LET m == CaptureAfter(text, lit, 1)
    IN  IF m.found THEN Str(Strip(m.text)) ELSE Missing

\* extract_other_sellers, lines 272-379: seller_data of one container.
ExtractSeller(container) ==
    [price       |-> OfferPrice(container),
     seller_name |-> OfferSellerName(container),
     condition   |-> OfferCondition(container.text),
     shipping    |-> OfferShipping(container.text),
     ships_from  |-> OfferFulfillment(container.text, <<"S", "h", "i", "p", "s", " ", "f", "r", "o", "m">>),
     sold_by     |-> OfferFulfillment(container.text, <<"S", "o", "l", "d", " ", "b", "y">>)]

\* extract_other_sellers, line 382: the container becomes a record when its
\* price or its seller name is truthy.
Accepted(seller_data) ==
    \/ Truthy(Get(seller_data.price, None))
    \/ Truthy(Get(seller_data.seller_name, None))

\* The limit on the containers visited (line 269).
MaxSellers == 20

\* re.compile(r'\$\d+') found in a string.
HasDollarDigits(s) ==
    \E i \in 1..Len(s) : s[i] = "$" /\ DigitsAt(s, i + 1, 1)

\* The broad search keeps a div that holds an a-price span, or a span whose
\* string holds '$' and a digit.
HoldsPrice(div) ==
    \/ div.price_span.found
    \/ div.offscreen.found /\ HasDollarDigits(div.offscreen.text)
    \/ \E k \in 1..Len(div.spans) : HasDollarDigits(div.spans[k])

\* extract_other_sellers, lines 259-262: the divs the broad search keeps.
RECURSIVE BroadSearch(_)
BroadSearch(all_divs) ==
    IF all_divs = <<>> THEN <<>>
    ELSE IF HoldsPrice(Head(all_divs))
        THEN <<Head(all_divs)>> \o BroadSearch(Tail(all_divs))
    ELSE BroadSearch(Tail(all_divs))

\* extract_other_sellers, lines 237-265: the matches of the first container
\* selector that has any, else the divs of the broad search.
OfferContainers(offers_soup) ==
    LET NonEmpty(matches) == matches # <<>>
        k == FirstIndex([nth \in 1..Len(offers_soup.container_matches) |-> NonEmpty(offers_soup.container_matches[nth])])
    IN  IF k # 0 THEN offers_soup.container_matches[k]
        ELSE BroadSearch(offers_soup.all_divs)

SiteRoot == <<"h", "t", "t", "p", "s", ":", "/", "/", "w", "w", "w", ".", "a", "m", "a", "z", "o", "n", ".", "c", "o", "m">>

\* extract_other_sellers, lines 206-227: the URL of the offers document.
OfferLink(soup, asin) ==
    LET HasHref(link) == link.found /\ Truthy(link.href)
        k == FirstIndex([nth \in 1..Len(soup.link_nodes) |-> HasHref(soup.link_nodes[nth])])
        href == soup.link_nodes[k].href.s
    IN  IF k = 0
            THEN SiteRoot \o <<"/", "g", "p", "/", "o", "f", "f", "e", "r", "-", "l", "i", "s", "t", "i", "n", "g", "/">> \o asin
                          \o <<"/", "r", "e", "f", "=", "d", "p", "_", "o", "l", "p", "_", "A", "L", "L", "_", "m", "b", "c", "?", "i", "e", "=", "U", "T", "F", "8", "&", "c", "o", "n", "d", "i", "t", "i", "o", "n", "=", "A", "L", "L">>
        ELSE IF StartsWith(href, <<"/">>) THEN SiteRoot \o href
        ELSE href

\* -------------------------------------------------------------------- rows

RowFields ==
    {"ASIN", "Title", "URL", "Status", "buybox_price", "buybox_seller",
     "buybox_ships_from", "buybox_sold_by", "seller_type", "seller_name",
     "seller_price", "seller_condition", "seller_shipping",
     "seller_ships_from", "seller_sold_by"}

\* str(n) for a natural number.
RECURSIVE IntText(_)
IntText(n) ==
    LET digit == <<"0", "1", "2", "3", "4", "5", "6", "7", "8", "9">>
    IN  IF n < 10 THEN <<digit[n + 1]>>
        ELSE IntText(n \div 10) \o <<digit[(n % 10) + 1]>>

\* A slip in the error row: the condition of the buy-box row is copied to it.
ErrorRowNew(asin, url) ==
    [ASIN              |-> Str(asin),
     Title             |-> Str(<<"E", "r", "r", "o", "r", ":", " ", "C", "o", "u", "l", "d", " ", "n", "o", "t", " ", "f", "e", "t", "c", "h", " ", "p", "a", "g", "e">>),
     URL               |-> Str(url),
     Status            |-> Str(<<"E", "r", "r", "o", "r">>),
     buybox_price      |-> None,
     buybox_seller     |-> None,
     buybox_ships_from |-> None,
     buybox_sold_by    |-> None,
     seller_type       |-> Str(<<"b", "u", "y", "b", "o", "x">>),
     seller_name       |-> None,
     seller_price      |-> None,
     seller_condition  |-> Str(<<"N", "e", "w">>),
     seller_shipping   |-> None,
     seller_ships_from |-> None,
     seller_sold_by    |-> None]


\* scrape_asin, lines 416-432: the row of a product whose page was not fetched.
ErrorRow(asin, url) ==
    [ASIN              |-> Str(asin),
     Title             |-> Str(<<"E", "r", "r", "o", "r", ":", " ", "C", "o", "u", "l", "d", " ", "n", "o", "t", " ", "f", "e", "t", "c", "h", " ", "p", "a", "g", "e">>),
     URL               |-> Str(url),
     Status            |-> Str(<<"E", "r", "r", "o", "r">>),
     buybox_price      |-> None,
     buybox_seller     |-> None,
     buybox_ships_from |-> None,
     buybox_sold_by    |-> None,
     seller_type       |-> Str(<<"b", "u", "y", "b", "o", "x">>),
     seller_name       |-> None,
     seller_price      |-> None,
     seller_condition  |-> None,
     seller_shipping   |-> None,
     seller_ships_from |-> None,
     seller_sold_by    |-> None]

\* A slip in the buy-box row: a product that is not available is reported as
\* an error.
BaseDataError(asin, title, url, is_available, buybox_data) ==
    [ASIN   |-> Str(asin),
     Title  |-> Str(title),
     URL    |-> Str(url),
     Status |-> IF is_available THEN Str(<<"A", "v", "a", "i", "l", "a", "b", "l", "e">>) ELSE Str(<<"E", "r", "r", "o", "r">>)]
    @@ buybox_data
    @@ [seller_type       |-> Str(<<"b", "u", "y", "b", "o", "x">>),
        seller_name       |-> buybox_data.buybox_seller,
        seller_price      |-> buybox_data.buybox_price,
        seller_condition  |-> Str(<<"N", "e", "w">>),
        seller_shipping   |-> None,
        seller_ships_from |-> buybox_data.buybox_ships_from,
        seller_sold_by    |-> buybox_data.buybox_sold_by]


\* scrape_asin, lines 478-491: base_data, the buy-box row.
BaseData(asin, title, url, is_available, buybox_data) ==
    [ASIN   |-> Str(asin),
     Title  |-> Str(title),
     URL    |-> Str(url),
     Status |-> IF is_available THEN Str(<<"A", "v", "a", "i", "l", "a", "b", "l", "e">>) ELSE Str(<<"U", "n", "a", "v", "a", "i", "l", "a", "b", "l", "e">>)]
    @@ buybox_data
    @@ [seller_type       |-> Str(<<"b", "u", "y", "b", "o", "x">>),
        seller_name       |-> buybox_data.buybox_seller,
        seller_price      |-> buybox_data.buybox_price,
        seller_condition  |-> Str(<<"N", "e", "w">>),
        seller_shipping   |-> None,
        seller_ships_from |-> buybox_data.buybox_ships_from,
        seller_sold_by    |-> buybox_data.buybox_sold_by]

\* A slip in the row type: the index enumerate gives is used as it is.
SellerTypeFromZero(i) == Str(<<"o", "t", "h", "e", "r", "_", "s", "e", "l", "l", "e", "r", "_">> \o IntText(i))


\* The type of the row of other_sellers[i], i counted from 0 as enumerate does.
SellerType(i) == Str(<<"o", "t", "h", "e", "r", "_", "s", "e", "l", "l", "e", "r", "_">> \o IntText(i + 1))

\* A slip in the offer row: the update alone, without the copy of base_data.
SellerRowUpdate(base_data, i, seller) ==
    [seller_type       |-> SellerType(i),
     seller_name       |-> Get(seller.seller_name, None),
     seller_price      |-> Get(seller.price, None),
     seller_condition  |-> Get(seller.condition, Str(<<"U", "n", "k", "n", "o", "w", "n">>)),
     seller_shipping   |-> Get(seller.shipping, None),
     seller_ships_from |-> Get(seller.ships_from, None),
     seller_sold_by    |-> Get(seller.sold_by, None)]


\* A slip in the offer row: the two fulfillment entries change places.
SellerRowSwapped(base_data, i, seller) ==
    [seller_type       |-> SellerType(i),
     seller_name       |-> Get(seller.seller_name, None),
     seller_price      |-> Get(seller.price, None),
     seller_condition  |-> Get(seller.condition, Str(<<"U", "n", "k", "n", "o", "w", "n">>)),
     seller_shipping   |-> Get(seller.shipping, None),
     seller_ships_from |-> Get(seller.sold_by, None),
     seller_sold_by    |-> Get(seller.ships_from, None)]
    @@ base_data


\* scrape_asin, lines 496-505: base_data.copy() updated with one seller.
SellerRow(base_data, i, seller) ==
    [seller_type       |-> SellerType(i),
     seller_name       |-> Get(seller.seller_name, None),
     seller_price      |-> Get(seller.price, None),
     seller_condition  |-> Get(seller.condition, Str(<<"U", "n", "k", "n", "o", "w", "n">>)),
     seller_shipping   |-> Get(seller.shipping, None),
     seller_ships_from |-> Get(seller.ships_from, None),
     seller_sold_by    |-> Get(seller.sold_by, None)]
    @@ base_data

\* A slip in the loop over other_sellers: its first element is skipped.
ResultsSkipFirst(base_data, other_sellers) ==
    <<base_data>> \o
        [k \in 1..(Len(other_sellers) - 1) |->
            SellerRow(base_data, k - 1, other_sellers[k + 1])]


\* scrape_asin, lines 475-508: results.
Results(base_data, other_sellers) ==
    <<base_data>> \o
        [k \in 1..Len(other_sellers) |->
            SellerRow(base_data, k - 1, other_sellers[k])]

base_url == <<"h", "t", "t", "p", "s", ":", "/", "/", "w", "w", "w", ".", "a", "m", "a", "z", "o", "n", ".", "c", "o", "m", "/", "d", "p", "/">>

\* get_page, line 33: the URL of the product page.
ProductUrl(asin) == base_url \o asin \o <<"/">>

\* ------------------------------------------------------------------- state

VARIABLES
    pc,               \* where the run is: in main, scrape_asin or extract_other_sellers
    all_asins,        \* main: the identifiers to process
    i,                \* main: the index of the identifier in process, from 0
    all_results,      \* main: the rows of the products processed so far
    results,          \* main: what the last call of scrape_asin returned
    asin,             \* scrape_asin: its argument
    soup,             \* scrape_asin: <<document>>, or <<>> for None
    url,              \* scrape_asin: the URL get_page returned
    title,            \* scrape_asin
    is_available,     \* scrape_asin
    buybox_data,      \* scrape_asin
    offer_link,       \* extract_other_sellers
    offers_soup,      \* extract_other_sellers: <<document>>, or <<>> for None
    offer_containers, \* extract_other_sellers
    ci,               \* extract_other_sellers: the containers visited so far
    seller_data,      \* extract_other_sellers: the dict of the last container
    sellers_data,     \* extract_other_sellers: the records accepted so far
    raised,           \* extract_other_sellers: its except clause has run
    requests,         \* the requests sent through the session, in order
    price_text,       \* clean_price: its argument
    price_result      \* clean_price: its result

main_vars == <<all_asins, i, all_results, results>>

page_vars == <<asin, soup, url, title, is_available, buybox_data>>

offer_vars ==
    <<offer_link, offers_soup, offer_containers, ci, seller_data,
      sellers_data, raised>>

price_vars == <<price_text, price_result>>

vars == <<pc, main_vars, page_vars, offer_vars, requests, price_vars>>

NoBuybox ==
    [buybox_price |-> None, buybox_seller |-> None,
     buybox_ships_from |-> None, buybox_sold_by |-> None]

\* The locals of scrape_asin and extract_other_sellers before they are bound.
NoLocals ==
    /\ asin = <<>>
    /\ soup = <<>>
    /\ url = <<>>
    /\ title = <<>>
    /\ is_available = TRUE
    /\ buybox_data = NoBuybox
    /\ offer_link = <<>>
    /\ offers_soup = <<>>
    /\ offer_containers = <<>>
    /\ ci = 0
    /\ seller_data = EmptySeller
    /\ sellers_data = <<>>
    /\ raised = FALSE

\* The page is loaded and the button not yet pressed.
Init ==
    /\ pc = "idle"
    /\ all_asins = <<>>
    /\ i = 0
    /\ all_results = <<>>
    /\ results = <<>>
    /\ NoLocals
    /\ requests = <<>>
    /\ price_text = None
    /\ price_result = None

\* ----------------------------------------------------------------- actions

\* scrape_asin has returned: its locals, and those of extract_other_sellers,
\* are gone.
DropLocals ==
    /\ asin' = <<>>
    /\ soup' = <<>>
    /\ url' = <<>>
    /\ title' = <<>>
    /\ is_available' = TRUE
    /\ buybox_data' = NoBuybox
    /\ offer_link' = <<>>
    /\ offers_soup' = <<>>
    /\ offer_containers' = <<>>
    /\ ci' = 0
    /\ seller_data' = EmptySeller
    /\ sellers_data' = <<>>
    /\ raised' = FALSE

\* A request sent through the session and whether it gave a document.
Request(fn, target, response) ==
    [fn |-> fn, url |-> target, ok |-> response # <<>>]

\* What a fetch may give: no document (an exception or an HTTP error), or one
\* of the documents.
Responses(documents) == {<<>>} \cup {<<d>> : d \in documents}

\* main, lines 595-600: the button is pressed with a non-empty list of
\* distinct identifiers.
main_start(lists) ==
    /\ pc = "idle"
    /\ \E asins \in lists :
        /\ asins # <<>>
        /\ all_asins' = asins
    /\ i' = 0
    /\ all_results' = <<>>
    /\ pc' = "loop"
    /\ UNCHANGED <<results, page_vars, offer_vars, requests, price_vars>>

\* main, lines 602-609 and 619: the next identifier is handed to scrape_asin,
\* or the loop ends.
main_loop ==
    /\ pc = "loop"
    /\ IF i < Len(all_asins)
          THEN /\ asin' = all_asins[i + 1]
               /\ pc' = "get_page"
          ELSE /\ asin' = asin
               /\ pc' = "complete"
    /\ UNCHANGED <<main_vars, soup, url, title, is_available, buybox_data,
                   offer_vars, requests, price_vars>>

\* get_page, lines 31-53: one request for the product page; any exception
\* gives None.
get_page(documents) ==
    /\ pc = "get_page"
    /\ \E response \in Responses(documents) :
        /\ soup' = response
        /\ requests' = Append(requests,
                              Request("get_page", ProductUrl(asin), response))
    /\ url' = ProductUrl(asin)
    /\ pc' = "scrape"
    /\ UNCHANGED <<main_vars, asin, title, is_available, buybox_data,
                   offer_vars, price_vars>>

\* scrape_asin, lines 415-432: no document, one error row.
scrape_asin_error ==
    /\ pc = "scrape"
    /\ soup = <<>>
    /\ results' = <<ErrorRow(asin, url)>>
    /\ pc' = "returned"
    /\ UNCHANGED <<all_asins, i, all_results, page_vars, offer_vars,
                   requests, price_vars>>

\* scrape_asin, lines 434-469: title, availability and buy box.
scrape_asin_page ==
    /\ pc = "scrape"
    /\ soup # <<>>
    /\ title' = Title(soup[1])
    /\ is_available' = IsAvailable(soup[1])
    /\ buybox_data' = extract_buybox_info(soup[1])
    /\ pc' = "offers_link"
    /\ UNCHANGED <<main_vars, asin, soup, url, offer_vars, requests,
                   price_vars>>

\* extract_other_sellers, lines 204-229: the URL of the offers document.
extract_other_sellers_link ==
    /\ pc = "offers_link"
    /\ sellers_data' = <<>>
    /\ offer_link' = OfferLink(soup[1], asin)
    /\ pc' = "offers_fetch"
    /\ UNCHANGED <<main_vars, page_vars, offers_soup, offer_containers, ci,
                   seller_data, raised, requests, price_vars>>

\* get_page_direct, lines 395-409, called at line 234: one request for the
\* offers document; any exception gives None, and then lines 236-386 are
\* skipped.
get_page_direct(documents) ==
    /\ pc = "offers_fetch"
    /\ \E response \in Responses(documents) :
        /\ offers_soup' = response
        /\ requests' = Append(requests,
                              Request("get_page_direct", offer_link, response))
        /\ pc' = IF response = <<>> THEN "offers_return" ELSE "offers_select"
    /\ UNCHANGED <<main_vars, page_vars, offer_link, offer_containers, ci,
                   seller_data, sellers_data, raised, price_vars>>

\* extract_other_sellers, lines 237-265: the offer containers.
extract_other_sellers_select ==
    /\ pc = "offers_select"
    /\ offer_containers' = OfferContainers(offers_soup[1])
    /\ ci' = 0
    /\ pc' = "offers_loop"
    /\ UNCHANGED <<main_vars, page_vars, offer_link, offers_soup,
                   seller_data, sellers_data, raised, requests, price_vars>>

\* A slip in the cap: it counts the records accepted, not the containers
\* visited.
extract_other_sellers_container_accepted ==
    /\ pc = "offers_loop"
    /\ IF ci < Len(offer_containers) /\ ~(Len(sellers_data) >= MaxSellers)
          THEN /\ seller_data' = ExtractSeller(offer_containers[ci + 1])
               /\ sellers_data' =
                      IF Accepted(seller_data')
                          THEN Append(sellers_data, seller_data')
                      ELSE sellers_data
               /\ ci' = ci + 1
               /\ pc' = pc
          ELSE /\ UNCHANGED <<seller_data, sellers_data, ci>>
               /\ pc' = "offers_return"
    /\ UNCHANGED <<main_vars, page_vars, offer_link, offers_soup,
                   offer_containers, raised, requests, price_vars>>


\* extract_other_sellers, lines 268-385: one turn of the loop over the
\* containers, or its end.
extract_other_sellers_container ==
    /\ pc = "offers_loop"
    /\ IF ci < Len(offer_containers) /\ ~(ci >= MaxSellers)
          THEN /\ seller_data' = ExtractSeller(offer_containers[ci + 1])
               /\ sellers_data' =
                      IF Accepted(seller_data')
                          THEN Append(sellers_data, seller_data')
                      ELSE sellers_data
               /\ ci' = ci + 1
               /\ pc' = pc
          ELSE /\ UNCHANGED <<seller_data, sellers_data, ci>>
               /\ pc' = "offers_return"
    /\ UNCHANGED <<main_vars, page_vars, offer_link, offers_soup,
                   offer_containers, raised, requests, price_vars>>

\* extract_other_sellers, lines 388-391: an exception raised in the try block
\* (lines 231-386) is caught; the function goes on to return sellers_data.
extract_other_sellers_except ==
    /\ pc \in {"offers_fetch", "offers_select", "offers_loop"}
    /\ raised' = TRUE
    /\ pc' = "offers_return"
    /\ UNCHANGED <<main_vars, page_vars, offer_link, offers_soup,
                   offer_containers, ci, seller_data, sellers_data,
                   requests, price_vars>>

\* scrape_asin, lines 472-508: the rows of the product.
scrape_asin_rows ==
    /\ pc = "offers_return"
    /\ results' = Results(BaseData(asin, title, url, is_available,
                                   buybox_data), sellers_data)
    /\ pc' = "returned"
    /\ UNCHANGED <<all_asins, i, all_results, page_vars, offer_vars,
                   requests, price_vars>>

\* A slip in the loop of main: the batch ends at the first product whose
\* page was not fetched.
main_extend_abort ==
    /\ pc = "returned"
    /\ all_results' = all_results \o results
    /\ i' = i + 1
    /\ pc' = IF results[1].Status = Str(<<"E", "r", "r", "o", "r">>) THEN "complete" ELSE "loop"
    /\ DropLocals
    /\ UNCHANGED <<all_asins, results, requests, price_vars>>


\* main, lines 609-612: the rows are added and the loop moves on.
main_extend ==
    /\ pc = "returned"
    /\ all_results' = all_results \o results
    /\ i' = i + 1
    /\ pc' = "loop"
    /\ DropLocals
    /\ UNCHANGED <<all_asins, results, requests, price_vars>>

\* clean_price, lines 55-91, applied to one text.
call_clean_price ==
    /\ pc = "clean_price"
    /\ price_result' = clean_price(price_text)
    /\ pc' = "price_done"
    /\ UNCHANGED <<main_vars, page_vars, offer_vars, requests, price_text>>

\* --------------------------------------------------------------- documents
\* The documents the fetches may give are drawn from bounded families.

\* n locators, none of which matches.
NoNodes(n) == [k \in 1..n |-> NoNode]

\* A link a locator returned, with its href (None when it has none).
NoLink == [found |-> FALSE, href |-> None]

Link(href) == [found |-> TRUE, href |-> href]

\* A primary document in which no locator matches anything.
PlainSoup ==
    [title_nodes       |-> NoNodes(7),
     page_text         |-> <<>>,
     price_containers  |-> <<>>,
     price_nodes       |-> NoNodes(6),
     seller_nodes      |-> NoNodes(5),
     fulfillment_nodes |-> NoNodes(4),
     link_nodes        |-> [k \in 1..4 |-> NoLink]]

\* A product page with a composite price widget, a merchant link, a
\* merchant-info panel and a relative link to its offers.
WidgetSoup ==
    [PlainSoup EXCEPT
        !.title_nodes[1] = Node(<<" ", "W", "i", "d", "g", "e", "t", " ">>),
        !.page_text = <<" ", "W", "i", "d", "g", "e", "t", " ", "I", "n", " ", "S", "t", "o", "c", "k", ".", " ", "4", "9", ".", "9", "9", " ", "S", "o", "l", "d", " ", "b", "y", " ", "A", "c", "m", "e", " ", "C", "o">>,
        !.price_containers =
            << [whole |-> Node(<<"4", "9">>), fraction |-> Node(<<"9", "9">>)] >>,
        !.seller_nodes[1] = Node(<<"S", "o", "l", "d", " ", "b", "y", " ", "A", "c", "m", "e", " ", "C", "o">>),
        !.fulfillment_nodes[1] = Node(<<"S", "h", "i", "p", "s", " ", "f", "r", "o", "m", " ", "A", "m", "a", "z", "o", "n", "\n", "S", "o", "l", "d", " ", "b", "y", " ", "A", "c", "m", "e", " ", "C", "o">>),
        !.link_nodes[1] = Link(Str(<<"/", "g", "p", "/", "o", "f", "f", "e", "r", "-", "l", "i", "s", "t", "i", "n", "g", "/", "B", "0", "A">>)),
        !.link_nodes[2] = Link(Str(<<"/", "g", "p", "/", "o", "f", "f", "e", "r", "-", "l", "i", "s", "t", "i", "n", "g", "/", "B", "0", "A">>))]

\* A page of a product that is gone: no title, no price, no link.
GoneSoup ==
    [PlainSoup EXCEPT !.page_text = <<"C", "u", "r", "r", "e", "n", "t", "l", "y", " ", "u", "n", "a", "v", "a", "i", "l", "a", "b", "l", "e", ".">>]

\* A page with a plain price node, an ingress link without href and one with
\* an absolute href.
DealSoup ==
    [PlainSoup EXCEPT
        !.title_nodes[5] = Node(<<"G", "a", "d", "g", "e", "t">>),
        !.page_text = <<"G", "a", "d", "g", "e", "t", " ", "c", "u", "r", "r", "e", "n", "t", "l", "y", " ", "u", "n", "a", "v", "a", "i", "l", "a", "b", "l", "e">>,
        !.price_nodes[3] = Node(<<"$", "1", ",", "2", "3", "4", ".", "5", "6">>),
        !.fulfillment_nodes[2] = Node(<<"S", "o", "l", "d", " ", "b", "y", ":", " ", "B", "o", "l", "t">>),
        !.fulfillment_nodes[4] = Node(<<"S", "h", "i", "p", "s", " ", "f", "r", "o", "m", ":", " ", "D", "e", "p", "o", "t">>),
        !.link_nodes[3] = Link(None),
        !.link_nodes[4] = Link(Str(<<"h", "t", "t", "p", "s", ":", "/", "/", "w", "w", "w", ".", "a", "m", "a", "z", "o", "n", ".", "c", "o", "m", "/", "g", "p", "/", "a", "o", "d", "/", "B", "0", "B">>))]

CoarsePrimary == {WidgetSoup, GoneSoup, DealSoup}

\* The a-price span of a container, and a container without one.
NoPriceSpan ==
    [found |-> FALSE, whole |-> NoNode, fraction |-> NoNode, decimal |-> NoNode]

PriceSpan(whole, fraction, decimal) ==
    [found |-> TRUE, whole |-> whole, fraction |-> fraction, decimal |-> decimal]

\* The concatenation of a sequence of texts.
RECURSIVE Concat(_)
Concat(texts) ==
    IF texts = <<>> THEN <<>> ELSE Head(texts) \o Concat(Tail(texts))

\* An offer container: its text is the concatenation of the texts of its
\* nodes and of the rest of its markup, as get_text gives it.
Container(offscreen, price_span, seller_links, spans, rest) ==
    [text         |-> offscreen.text \o price_span.whole.text
                        \o price_span.decimal.text \o price_span.fraction.text
                        \o Concat(seller_links) \o Concat(spans) \o rest,
     offscreen    |-> offscreen,
     price_span   |-> price_span,
     seller_links |-> seller_links,
     spans        |-> spans]

\* A complete offer: price, seller link, condition, shipping, fulfillment.
FullOffer ==
    Container(Node(<<"$", "5", ".", "0", "0">>), NoPriceSpan, <<<<" ", "A", "c", "m", "e">>>>, <<>>,
              <<" ", "N", "e", "w", "\n", "F", "R", "E", "E", " ", "S", "h", "i", "p", "p", "i", "n", "g", "\n", "S", "h", "i", "p", "s", " ", "f", "r", "o", "m", " ", "D", "e", "p", "o", "t", "\n", "S", "o", "l", "d", " ", "b", "y", " ", "A", "c", "m", "e">>)

\* A container that holds no offer.
EmptyOffer == Container(NoNode, NoPriceSpan, <<>>, <<>>, <<"N", "o", " ", "o", "f", "f", "e", "r", "s">>)

\* A seller named in the text, and no price.
NameOffer == Container(NoNode, NoPriceSpan, <<>>, <<>>, <<"S", "o", "l", "d", " ", "b", "y", " ", "B", "o", "l", "t", " ", "U", "s", "e", "d">>)

\* A price of zero and no seller.
ZeroOffer == Container(Node(<<"$", "0", ".", "0", "0">>), NoPriceSpan, <<>>, <<>>, <<>>)

\* A price node without a number, and no seller.
CartOffer == Container(Node(<<"S", "e", "e", " ", "c", "a", "r", "t">>), NoPriceSpan, <<>>, <<>>, <<>>)

\* A price in parts, and a seller link that names Amazon.
PartsOffer ==
    Container(NoNode, PriceSpan(Node(<<"1", ",", "2", "9", "9">>), Node(<<"9", "9">>), NoNode),
              <<<<"A", "m", "a", "z", "o", "n", ".", "c", "o", "m">>>>, <<>>, <<" ", "R", "e", "n", "e", "w", "e", "d">>)

\* A price only in a span string, with its shipping.
SpanOffer ==
    Container(NoNode, NoPriceSpan, <<>>, <<<<"$", "1", "2", ".", "5", "0">>>>, <<" ", "+", " ", "$", "3", ".", "9", "9", " ", "s", "h", "i", "p", "p", "i", "n", "g">>)

ContainerPool == <<FullOffer, EmptyOffer, NameOffer, ZeroOffer, CartOffer>>

\* The containers an offers document may list beyond its bounded pattern.
MaxContainers == 22

\* The list of n containers that repeats a pattern of pool indices.
ContainerList(n, pattern) ==
    [k \in 1..n |-> ContainerPool[pattern[((k - 1) % Len(pattern)) + 1]]]

\* The lists of up to max containers that repeat a pattern of two kinds.
ContainerLists(max) ==
    {ContainerList(n, pattern) :
        n \in 0..max, pattern \in [1..2 -> 1..Len(ContainerPool)]}

\* An offers document in which no locator matches anything.
PlainOffers ==
    [container_matches |-> [k \in 1..5 |-> <<>>], all_divs |-> <<>>]

\* The offers documents whose containers the first container selector finds.
ModernOffers ==
    {[PlainOffers EXCEPT !.container_matches[1] = list] :
        list \in ContainerLists(MaxContainers)}

\* Documents in which a later selector finds the containers, alone or with
\* an earlier one, and documents only the broad search finds containers in.
LegacyOffers ==
    { [PlainOffers EXCEPT !.container_matches[3] = <<NameOffer, PartsOffer>>],
      [PlainOffers EXCEPT !.container_matches[2] = <<PartsOffer>>,
                          !.container_matches[5] = <<FullOffer, FullOffer>>],
      [PlainOffers EXCEPT !.all_divs =
          <<EmptyOffer, SpanOffer, PartsOffer, NameOffer, ZeroOffer>>] }

RichOffers == ModernOffers \cup LegacyOffers

CoarseOffers ==
    { [PlainOffers EXCEPT !.container_matches[1] = <<FullOffer, EmptyOffer, NameOffer>>],
      [PlainOffers EXCEPT !.all_divs = <<ZeroOffer, EmptyOffer>>] }

\* The identifiers a run may be given.
AsinPool == {<<"B", "0", "A">>, <<"B", "0", "B">>, <<"B", "0", "C">>}

\* The longest list of identifiers of a batch.
MaxAsins == 2

\* list(set(...)): the lists of distinct identifiers, of up to max of them.
AsinLists(max) ==
    {list \in UNION {[1..n -> AsinPool] : n \in 1..max} :
        \A j, k \in 1..Len(list) : j # k => list[j] # list[k]}

\* ---------------------------------------------------------- specifications

\* A run of main over the given lists of identifiers, with the fetches
\* giving the given documents.
Run(lists, primary, offers) ==
    \/ main_start(lists)
    \/ main_loop
    \/ get_page(primary)
    \/ scrape_asin_error
    \/ scrape_asin_page
    \/ extract_other_sellers_link
    \/ get_page_direct(offers)
    \/ extract_other_sellers_select
    \/ extract_other_sellers_container
    \/ extract_other_sellers_except
    \/ scrape_asin_rows
    \/ main_extend

\* One product, with offers documents of every bounded shape.
Next == Run({<<<<"B", "0", "A">>>>}, CoarsePrimary, RichOffers)

Spec == Init /\ [][Next]_vars

\* A batch of products, with a few documents.
NextBatch == Run(AsinLists(MaxAsins), {WidgetSoup, GoneSoup}, CoarseOffers)

SpecBatch == Init /\ [][NextBatch]_vars

\* A batch that keeps running: every step but the pressing of the button and
\* the raising of an exception is taken when it can be, as a sequential
\* program does. These are the steps whose next state is cheap to compute.
BatchStep ==
    \/ main_loop
    \/ get_page({WidgetSoup, GoneSoup})
    \/ scrape_asin_error
    \/ extract_other_sellers_link
    \/ get_page_direct(CoarseOffers)
    \/ extract_other_sellers_select
    \/ scrape_asin_rows
    \/ main_extend

\* scrape_asin_page as it moves the run: with a document, on to the offers.
PageControl ==
    /\ pc = "scrape"
    /\ soup # <<>>
    /\ pc' = "offers_link"
    /\ ci' = ci

\* extract_other_sellers_container as it moves the run: to the next
\* container, or out of the loop.
LoopControl ==
    /\ pc = "offers_loop"
    /\ IF ci < Len(offer_containers) /\ ~(ci >= MaxSellers)
          THEN pc' = pc /\ ci' = ci + 1
          ELSE pc' = "offers_return" /\ ci' = ci

\* The two extraction steps are taken when they can be, too; their fairness
\* is stated on the position of the run, which is all it depends on.
SpecBatchFair ==
    /\ Init
    /\ [][NextBatch]_vars
    /\ WF_vars(BatchStep)
    /\ WF_<<pc, ci>>(PageControl)
    /\ WF_<<pc, ci>>(LoopControl)

\* The most candidates of one locator chain that match in a document.
MaxMatches == 2

\* The chains of n candidates of which at most MaxMatches match, each a node
\* with one of the texts.
Chains(n, texts) ==
    {chain \in [1..n -> {NoNode} \cup {Node(t) : t \in texts}] :
        Cardinality({k \in 1..n : chain[k].found}) <= MaxMatches}

\* Product pages that differ in what the candidates of one locator chain
\* return: the title chain, the price chain or the seller chain.
ChainSoups ==
    {[WidgetSoup EXCEPT !.title_nodes = chain] :
        chain \in Chains(7, {<<>>, <<" ">>, <<" ", "W", "i", "d", "g", "e", "t", " ">>})}
    \cup
    {[DealSoup EXCEPT !.price_nodes = chain] :
        chain \in Chains(6, {<<>>, <<"$", "5", ".", "0", "0">>, <<"F", "r", "e", "e">>})}
    \cup
    {[DealSoup EXCEPT !.seller_nodes = chain] :
        chain \in Chains(5, {<<>>, <<" ">>, <<"b", "y", " ", "A", "c", "m", "e">>})}

\* One product, with primary documents of every bounded chain shape.
NextChain == Run({<<<<"B", "0", "A">>>>}, ChainSoups, CoarseOffers)

SpecChain == Init /\ [][NextChain]_vars

\* The hrefs of an anchor to the offers: relative to the site root, absolute
\* on the site, absolute on another site, and relative to the page.
ListingHrefs ==
    {<<"/", "g", "p", "/", "o", "f", "f", "e", "r", "-", "l", "i", "s", "t", "i", "n", "g", "/", "B", "0", "A">>,
     <<"h", "t", "t", "p", "s", ":", "/", "/", "w", "w", "w", ".", "a", "m", "a", "z", "o", "n", ".", "c", "o", "m", "/", "g", "p", "/", "o", "f", "f", "e", "r", "-", "l", "i", "s", "t", "i", "n", "g", "/", "B", "0", "A">>,
     <<"h", "t", "t", "p", "s", ":", "/", "/", "e", "x", "a", "m", "p", "l", "e", ".", "c", "o", "m", "/", "g", "p", "/", "o", "f", "f", "e", "r", "-", "l", "i", "s", "t", "i", "n", "g", "/", "B", "0", "A">>,
     <<"g", "p", "/", "o", "f", "f", "e", "r", "-", "l", "i", "s", "t", "i", "n", "g", "/", "B", "0", "A">>}

\* The hrefs of an element with the ingress id: the same shapes, and ''.
IngressHrefs ==
    {<<>>, <<"/", "g", "p", "/", "a", "o", "d", "/", "B", "0", "A">>, <<"h", "t", "t", "p", "s", ":", "/", "/", "w", "w", "w", ".", "a", "m", "a", "z", "o", "n", ".", "c", "o", "m", "/", "g", "p", "/", "a", "o", "d", "/", "B", "0", "A">>,
     <<"h", "t", "t", "p", "s", ":", "/", "/", "e", "x", "a", "m", "p", "l", "e", ".", "c", "o", "m", "/", "a", "o", "d", "/", "B", "0", "A">>, <<"a", "o", "d", "/", "B", "0", "A">>}

\* What the four link locators return in a page with at most one anchor to
\* the offers and at most two elements with the ingress id. The second
\* locator matches the anchor the first matches when its href holds
\* "/gp/offer-listing/"; the fourth matches the first anchor with the id,
\* which is the element the third matches unless that is not an anchor (it
\* then has no href).
LinkNodes ==
    {<<listing,
       IF listing.found /\ Contains(listing.href.s, <<"/", "g", "p", "/", "o", "f", "f", "e", "r", "-", "l", "i", "s", "t", "i", "n", "g", "/">>)
           THEN listing ELSE NoLink,
       ingress[1], ingress[2]>> :
        listing \in {NoLink} \cup {Link(Str(h)) : h \in ListingHrefs},
        ingress \in
            {<<NoLink, NoLink>>}
            \cup {<<Link(Str(h)), Link(Str(h))>> : h \in IngressHrefs}
            \cup {<<Link(None), anchor>> :
                     anchor \in {NoLink} \cup {Link(Str(h)) : h \in IngressHrefs}}}

\* Product pages that differ in their links to the offers.
LinkSoups == {[PlainSoup EXCEPT !.link_nodes = nodes] : nodes \in LinkNodes}

\* One product, with primary documents of every bounded shape of links.
NextLink == Run({<<<<"B", "0", "A">>>>}, LinkSoups, CoarseOffers)

SpecLink == Init /\ [][NextLink]_vars


\* The longest integer part of a price text.
MaxIntDigits == 4

\* The texts of n digits.
DigitTexts(n) == [1..n -> {"0", "1", "9"}]

\* A text of digits with a ',' before every group of three from the right.
RECURSIVE Grouped(_)
Grouped(digits) ==
    IF Len(digits) <= 3 THEN digits
    ELSE Grouped(SubSeq(digits, 1, Len(digits) - 3)) \o <<",">>
            \o SubSeq(digits, Len(digits) - 2, Len(digits))

\* The well-formed price texts: an optional '$', an integer part with or
\* without thousands separators and no leading zero, and nothing more or a
\* '.' and two digits.
ShapedTexts ==
    {dollar \o int \o fraction :
        dollar \in {<<>>, <<"$">>},
        int \in UNION {{d, Grouped(d)} :
                  d \in {x \in UNION {DigitTexts(n) : n \in 1..MaxIntDigits} :
                            Len(x) = 1 \/ x[1] # "0"}},
        fraction \in {<<>>, <<".", "5", "6">>, <<".", "0", "0">>}}

\* Other texts clean_price is given: nothing, blanks, words, long numbers.
OtherTexts ==
    {<<>>, <<" ", " ">>, <<"F", "r", "e", "e">>, <<" ", "S", "e", "e", " ", "c", "a", "r", "t", " ">>, <<"1", "2", "3", "4", "5", "6", "7">>, <<"S", "K", "U", " ", "1", "2", "3", "4", "5", "6", "7", "8">>,
     <<"1", "2", ".", "5">>, <<"1", ".", "2", "3", "4">>, <<"$", " ", "5">>, <<"f", "r", "o", "m", " ", "$", "5", ".", "0", "0", " ", "t", "o", " ", "$", "7", ".", "0", "0">>}

PriceTexts ==
    {None} \cup {Str(t) : t \in ShapedTexts \cup OtherTexts}

\* clean_price is about to be applied to one of the texts.
InitPrice ==
    /\ pc = "clean_price"
    /\ all_asins = <<>>
    /\ i = 0
    /\ all_results = <<>>
    /\ results = <<>>
    /\ NoLocals
    /\ requests = <<>>
    /\ price_text \in PriceTexts
    /\ price_result = None

NextPrice == call_clean_price

SpecPrice == InitPrice /\ [][NextPrice]_vars

\* ------------------------------------------------------------------ claims

Text_buybox == <<"b", "u", "y", "b", "o", "x">>

\* The product page was fetched and scrape_asin has returned its rows.
ReturnedRows == pc = "returned" /\ soup # <<>>

\* C1: when the primary document was fetched, scrape_asin returns exactly
\* 1 + (number of accepted offer records) rows, the first row has seller_type
\* "buybox", and no other row has.
C1_RowCount ==
    ReturnedRows =>
        /\ Len(results) = 1 + Len(sellers_data)
        /\ results[1].seller_type = Str(Text_buybox)
        /\ \A k \in 2..Len(results) : results[k].seller_type # Str(Text_buybox)

\* C1 happens: the rows of a product with several accepted offers.
C1_Witness ==
    /\ ReturnedRows
    /\ offers_soup # <<>>
    /\ Len(sellers_data) >= 3
    /\ Len(results) = 1 + Len(sellers_data)

\* The product page was not fetched and scrape_asin has returned its row.
ReturnedError == pc = "returned" /\ soup = <<>>

\* The seller-specific fields and the buy-box fields of a row.
SellerFields ==
    {"seller_name", "seller_price", "seller_condition", "seller_shipping",
     "seller_ships_from", "seller_sold_by"}

BuyboxFields ==
    {"buybox_price", "buybox_seller", "buybox_ships_from", "buybox_sold_by"}

\* C2: when get_page returns no document, scrape_asin returns (no exception
\* reaches main) exactly one row, with Status "Error" and with the six
\* seller fields and the four buybox_ fields null, and no offers document is
\* requested for that product: the failed request for its page is the last
\* one sent, and extract_other_sellers has not run.
C2_ErrorRow ==
    ReturnedError =>
        /\ Len(results) = 1
        /\ results[1].ASIN = Str(asin)
        /\ results[1].Status = Str(<<"E", "r", "r", "o", "r">>)
        /\ \A f \in SellerFields \cup BuyboxFields : results[1][f] = None
        /\ requests # <<>>
        /\ requests[Len(requests)] =
               [fn |-> "get_page", url |-> ProductUrl(asin), ok |-> FALSE]
        /\ offer_link = <<>>
        /\ offers_soup = <<>>
        /\ ~raised

\* C2 happens: in a batch, the page of the second product is not fetched
\* after the first product was scraped with its offers.
C2_Witness ==
    /\ ReturnedError
    /\ i = 1
    /\ Len(requests) = 3
    /\ requests[2].fn = "get_page_direct"
    /\ results[1].Status = Str(<<"E", "r", "r", "o", "r">>)
    /\ results[1].seller_condition = None

\* The first row is the buy-box row of the primary document: its Status
\* tells whether the page shows the product available, and its buy-box
\* fields are those extract_buybox_info gave for the page.
BuyboxRowOfPage ==
    /\ results[1].Status \in {Str(<<"A", "v", "a", "i", "l", "a", "b", "l", "e">>), Str(<<"U", "n", "a", "v", "a", "i", "l", "a", "b", "l", "e">>)}
    /\ results[1].Status = Str(<<"A", "v", "a", "i", "l", "a", "b", "l", "e">>) <=> is_available
    /\ \A f \in BuyboxFields : results[1][f] = buybox_data[f]
    /\ results[1].seller_type = Str(Text_buybox)

\* C3 as stated: when the offers document is not fetched, or anything raises
\* in extract_other_sellers, the product has no offer record and exactly one
\* row, the buy-box row made of the primary document. It is violated: an
\* exception raised in the loop over the containers leaves in sellers_data
\* the records accepted before it, and they are returned.
C3_NoRecords ==
    ReturnedRows /\ (offers_soup = <<>> \/ raised) =>
        /\ sellers_data = <<>>
        /\ Len(results) = 1
        /\ BuyboxRowOfPage

\* The rows of a product whose offers were not all read: none when the offers
\* document was not fetched, and in any case one row more than the records
\* in sellers_data, after the buy-box row of the primary document.
DegradedRows ==
    ReturnedRows /\ (offers_soup = <<>> \/ raised) =>
        /\ offers_soup = <<>> => sellers_data = <<>> /\ Len(results) = 1
        /\ Len(results) = 1 + Len(sellers_data)
        /\ BuyboxRowOfPage

\* The except clause of extract_other_sellers runs: the records accepted so
\* far stay, and the function returns them.
ExceptKeepsRecords ==
    raised' /\ ~raised =>
        /\ sellers_data' = sellers_data
        /\ pc' = "offers_return"

\* C3, amended: when the offers document is not fetched the product has no
\* offer record and exactly one row; when something raises while the offers
\* document is processed the product keeps the records accepted before the
\* exception, and has one row more than those; in both cases the first row
\* is the buy-box row, with Status "Available" or "Unavailable" and the
\* buy-box fields of the primary document.
C3_Degraded == [](DegradedRows) /\ [][ExceptKeepsRecords]_vars

\* C3 happens: the page of a product that is not available was fetched, the
\* request for its offers gave no document, and its one row is returned.
C3_Witness ==
    /\ ReturnedRows
    /\ ~raised
    /\ offers_soup = <<>>
    /\ requests[Len(requests)] =
           [fn |-> "get_page_direct", url |-> offer_link, ok |-> FALSE]
    /\ ~is_available
    /\ Len(results) = 1
    /\ results[1].Status = Str(<<"U", "n", "a", "v", "a", "i", "l", "a", "b", "l", "e">>)

\* The extraction of a container yielded a price or a seller name: the key
\* is in its dict.
Yielded(record) == record.price # Missing \/ record.seller_name # Missing

\* The visited containers whose extraction yielded a price or a seller name.
YieldingVisited ==
    {k \in 1..ci : Yielded(ExtractSeller(offer_containers[k]))}

\* C4: a visited container contributes a record if and only if its
\* extraction yielded a price or a seller name, whatever the price is: in
\* the loop over the containers there are as many records as visited
\* containers that yielded one or the other, and the container just visited
\* yielded one or the other exactly when its dict is the last record.
C4_AcceptIffYielded ==
    pc = "offers_loop" /\ ci > 0 =>
        /\ Len(sellers_data) = Cardinality(YieldingVisited)
        /\ Yielded(seller_data) <=>
               /\ sellers_data # <<>>
               /\ sellers_data[Len(sellers_data)] = seller_data

\* The loop over the containers ended without an exception.
LoopEnded == pc = "offers_return" /\ offers_soup # <<>> /\ ~raised

\* At most 20 containers are visited and at most 20 records made, and when
\* the loop has ended min(n, 20) containers were visited.
VisitedAtMost20 ==
    /\ ci <= 20
    /\ ci <= Len(offer_containers)
    /\ Len(sellers_data) <= ci
    /\ LoopEnded =>
        ci = IF Len(offer_containers) < 20 THEN Len(offer_containers) ELSE 20

\* The containers are visited one by one from the first, a turn of the loop
\* over them is taken only below 20 visits, and a record is made only there,
\* of the container the turn visits.
VisitsInDocumentOrder ==
    /\ ci' # ci /\ ci' # 0 =>
        /\ pc = "offers_loop"
        /\ ci < 20
        /\ ci' = ci + 1
        /\ seller_data' = ExtractSeller(offer_containers[ci'])
    /\ sellers_data' # sellers_data /\ sellers_data' # <<>> =>
        /\ ci' = ci + 1
        /\ sellers_data' = Append(sellers_data, seller_data')

\* C5: of n containers the first min(n, 20) are visited and no other, at
\* most 20 records are produced, and the records are those of the visited
\* containers, so that a container at position 21 or later gives none even
\* when some of the first 20 were dropped.
C5_Cap == [](VisitedAtMost20) /\ [][VisitsInDocumentOrder]_vars

\* C5 happens: more than 20 containers, some of the first 20 dropped, and
\* the 21st, which would be accepted, not visited.
C5_Witness ==
    /\ LoopEnded
    /\ Len(offer_containers) > 20
    /\ ci = 20
    /\ Len(sellers_data) < 20
    /\ Len(sellers_data) > 0
    /\ Accepted(ExtractSeller(offer_containers[21]))

\* The rows scrape_asin returns: the buy-box row, then row k + 1 for the
\* k-th record of sellers_data, typed "other_seller_" and k.
RowsInOrder ==
    ReturnedRows =>
        /\ results[1].seller_type = Str(Text_buybox)
        /\ Len(results) = 1 + Len(sellers_data)
        /\ \A k \in 1..Len(sellers_data) :
            /\ results[k + 1].seller_type = Str(<<"o", "t", "h", "e", "r", "_", "s", "e", "l", "l", "e", "r", "_">> \o IntText(k))
            /\ results[k + 1].seller_name = Get(sellers_data[k].seller_name, None)
            /\ results[k + 1].seller_price = Get(sellers_data[k].price, None)
        /\ Cardinality({results[k].seller_type : k \in 1..Len(results)})
               = Len(results)

\* A turn of the loop over the containers visits the next container of the
\* document and puts its record, if it is accepted, after the records of the
\* containers before it; no other step changes the records of a product.
RecordsInDiscoveryOrder ==
    IF pc = "offers_loop" /\ pc' = "offers_loop"
        THEN /\ ci' = ci + 1
             /\ sellers_data' \in
                    {sellers_data,
                     Append(sellers_data, ExtractSeller(offer_containers[ci']))}
    ELSE pc' # "loop" /\ pc # "offers_link" => sellers_data' = sellers_data

\* C6: the rows of a product are the buy-box row and then one row for each
\* accepted record in the order of discovery; the k-th accepted record is
\* row k + 1 and its seller_type is "other_seller_" followed by k, so the
\* indices are 1..m without gap or repeat.
C6_Order == [](RowsInOrder) /\ [][RecordsInDiscoveryOrder]_vars

\* C6 happens: the first container was dropped, so that the k-th record is
\* not of the k-th container, and there are records enough for an index of
\* two digits.
C6_Witness ==
    /\ ReturnedRows
    /\ offer_containers # <<>>
    /\ ~Accepted(ExtractSeller(offer_containers[1]))
    /\ Len(sellers_data) >= 10
    /\ results[2].seller_type = Str(<<"o", "t", "h", "e", "r", "_", "s", "e", "l", "l", "e", "r", "_", "1">>)
    /\ results[2].seller_name = Get(ExtractSeller(offer_containers[2]).seller_name, None)
    /\ results[11].seller_type = Str(<<"o", "t", "h", "e", "r", "_", "s", "e", "l", "l", "e", "r", "_", "1", "0">>)

\* C7: every row scrape_asin returns, and so every row main collects, has
\* the 15 fields of RowFields and no other.
C7_Fields ==
    /\ Cardinality(RowFields) = 15
    /\ \A k \in 1..Len(results) : DOMAIN results[k] = RowFields
    /\ \A k \in 1..Len(all_results) : DOMAIN all_results[k] = RowFields

\* C7 happens: an error row is collected and the next product returns a
\* buy-box row and offer rows.
C7_Witness ==
    /\ ReturnedRows
    /\ \E k \in 1..Len(all_results) : all_results[k].Status = Str(<<"E", "r", "r", "o", "r">>)
    /\ Len(results) >= 3
    /\ results[1].seller_type = Str(Text_buybox)
    /\ \A k \in 1..Len(results) : DOMAIN results[k] = RowFields

\* The number a well-formed price text denotes, in hundredths: the text
\* without its '$' and its thousands separators.
Denoted(text) ==
    FloatCents(StripCommas(IF Head(text) = "$" THEN Tail(text) ELSE text))

\* C8: for a text made of an optional '$', an integer part with or without
\* thousands separators and, or not, a '.' and two digits, clean_price
\* returns the number the whole text denotes.
C8_Denotes ==
    pc = "price_done" /\ price_text \in {Str(t) : t \in ShapedTexts} =>
        price_result = Num(Denoted(price_text.s))

\* A candidate of a locator chain yields text that is not empty.
HasText(node) == node.found /\ Strip(node.text) # <<>>

\* The first candidate of a chain that yields text, or 0.
FirstWithText(nodes) ==
    FirstIndex([nth \in 1..Len(nodes) |-> HasText(nodes[nth])])

\* C9: the title, the buy-box price (of a page without a price widget) and
\* the buy-box seller are each the extraction of the first candidate of
\* their chain that yields non-empty text, a candidate that matches a node
\* of empty text being passed over; the price and the seller are null, and
\* the title is its default, only when no candidate yields text.
C9_FirstNonEmpty ==
    pc = "offers_link" =>
        LET page == soup[1]
            t == FirstWithText(page.title_nodes)
            p == FirstWithText(page.price_nodes)
            s == FirstWithText(page.seller_nodes)
        IN  /\ title = IF t = 0 THEN <<"T", "i", "t", "l", "e", " ", "n", "o", "t", " ", "f", "o", "u", "n", "d">>
                       ELSE Strip(page.title_nodes[t].text)
            /\ page.price_containers = <<>> =>
                   buybox_data.buybox_price =
                       IF p = 0 THEN None
                       ELSE clean_price(Str(page.price_nodes[p].text))
            /\ buybox_data.buybox_seller =
                   IF s = 0 THEN None
                   ELSE Str(StripPrefix(Strip(page.seller_nodes[s].text),
                                        << <<<<"b", "y">>>>, <<<<"s", "o", "l", "d">>, <<"b", "y">>>> >>))

\* The requests for product pages, in the order they were sent.
PageRequests == SelectSeq(requests, LAMBDA r : r.fn = "get_page")

\* The products scrape_asin was called for so far.
Started ==
    IF pc \in {"idle", "loop", "get_page", "complete"} THEN i ELSE i + 1

\* The position of an identifier in the batch; the identifiers are distinct.
Position(id) == CHOOSE k \in 1..Len(all_asins) : Str(all_asins[k]) = id

\* Every identifier of the batch has a row.
EveryAsinHasRow ==
    \A k \in 1..Len(all_asins) :
        \E r \in 1..Len(all_results) : all_results[r].ASIN = Str(all_asins[k])

\* The products are processed one after another: the k-th request for a
\* product page is the only one for the k-th identifier, a request for an
\* offers document follows at once the successful request for the page of
\* its product and nothing else, the rows collected are those of the products
\* processed, in their order, and the batch is complete only when every
\* identifier was processed.
OneByOne ==
    /\ Len(PageRequests) = Started
    /\ Started <= Len(all_asins)
    /\ \A k \in 1..Len(PageRequests) :
           PageRequests[k].url = ProductUrl(all_asins[k])
    /\ \A j \in 1..Len(requests) :
           requests[j].fn = "get_page_direct" =>
               /\ j > 1
               /\ requests[j - 1].fn = "get_page"
               /\ requests[j - 1].ok
    /\ \A k \in 1..i :
           \E r \in 1..Len(all_results) : all_results[r].ASIN = Str(all_asins[k])
    /\ \A q, r \in 1..Len(all_results) :
           q < r => Position(all_results[q].ASIN) <= Position(all_results[r].ASIN)
    /\ pc = "complete" => i = Len(all_asins)

\* C10: in a batch the identifiers are processed strictly one after another,
\* each with exactly one request for its page and at most one request for
\* its offers, sent only after its page was fetched; no failed request is
\* sent again; and whatever requests fail the batch runs to completion with
\* at least one row for every identifier.
C10_Batch ==
    /\ [](OneByOne)
    /\ (pc # "idle") ~> (pc = "complete" /\ EveryAsinHasRow)

\* C10 happens: a batch of two is complete, the page of the first product
\* was not fetched and the second product was scraped with its offers.
C10_Witness ==
    /\ pc = "complete"
    /\ Len(all_asins) = 2
    /\ Len(requests) = 3
    /\ ~requests[1].ok
    /\ requests[3].fn = "get_page_direct"
    /\ all_results[1].Status = Str(<<"E", "r", "r", "o", "r">>)
    /\ Len(all_results) > 2
    /\ EveryAsinHasRow

\* The fields of a row that an offer row takes from the buy-box row.
BaseFields == {"ASIN", "Title", "URL", "Status"} \cup BuyboxFields

\* Row k + 1 carries the k-th record, a missing condition shown as the given
\* default and every other missing entry as null, and the base fields of the
\* buy-box row.
OfferRowOf(k, no_condition) ==
    LET row == results[k + 1]
        record == sellers_data[k]
    IN  /\ row.seller_name = Get(record.seller_name, None)
        /\ row.seller_price = Get(record.price, None)
        /\ row.seller_condition = Get(record.condition, no_condition)
        /\ row.seller_shipping = Get(record.shipping, None)
        /\ row.seller_ships_from = Get(record.ships_from, None)
        /\ row.seller_sold_by = Get(record.sold_by, None)
        /\ \A f \in BaseFields : row[f] = results[1][f]

\* C11 as stated: the six seller fields of an offer row are the entries of
\* its record, every entry the record does not have being null, and its other
\* fields are those of the buy-box row. It is violated: a record without a
\* condition gives a row whose seller_condition is "Unknown".
C11_NullProjection ==
    ReturnedRows => \A k \in 1..Len(sellers_data) : OfferRowOf(k, None)

\* C11, amended: the six seller fields of an offer row are the entries of its
\* record; an entry the record does not have is null, except the condition,
\* which is then "Unknown"; the other fields are those of the buy-box row.
C11_Projection ==
    ReturnedRows =>
        \A k \in 1..Len(sellers_data) : OfferRowOf(k, Str(<<"U", "n", "k", "n", "o", "w", "n">>))

\* C11 happens: rows of a record without a condition and of a record that has
\* every entry.
C11_Witness ==
    /\ ReturnedRows
    /\ \E k \in 1..Len(sellers_data) :
        /\ sellers_data[k].condition = Missing
        /\ sellers_data[k].price # Missing
        /\ results[k + 1].seller_condition = Str(<<"U", "n", "k", "n", "o", "w", "n">>)
        /\ results[k + 1].seller_price = sellers_data[k].price
    /\ \E k \in 1..Len(sellers_data) :
        /\ \A f \in DOMAIN sellers_data[k] : sellers_data[k][f] # Missing
        /\ results[k + 1].seller_ships_from = sellers_data[k].ships_from
        /\ results[k + 1].seller_ships_from # results[k + 1].seller_sold_by

\* The fallback URL of the offers of a product.
FallbackUrl(id) ==
    <<"h", "t", "t", "p", "s", ":", "/", "/", "w", "w", "w", ".", "a", "m", "a", "z", "o", "n", ".", "c", "o", "m", "/", "g", "p", "/", "o", "f", "f", "e", "r", "-", "l", "i", "s", "t", "i", "n", "g", "/">> \o id
        \o <<"/", "r", "e", "f", "=", "d", "p", "_", "o", "l", "p", "_", "A", "L", "L", "_", "m", "b", "c", "?", "i", "e", "=", "U", "T", "F", "8", "&", "c", "o", "n", "d", "i", "t", "i", "o", "n", "=", "A", "L", "L">>

\* The link locators whose element has an href.
LinksWithHref ==
    {k \in 1..Len(soup[1].link_nodes) :
        soup[1].link_nodes[k].found /\ Truthy(soup[1].link_nodes[k].href)}

\* C12: the URL requested for the offers document is always under the site
\* root https://www.amazon.com: the fallback URL of the product when no link
\* locator gives an href, and otherwise the discovered href, resolved against
\* the site root when it is relative; no href is requested unresolved or on
\* another site.
C12_SameSite ==
    /\ \A j \in 1..Len(requests) :
           requests[j].fn = "get_page_direct" =>
               StartsWith(requests[j].url, <<"h", "t", "t", "p", "s", ":", "/", "/", "w", "w", "w", ".", "a", "m", "a", "z", "o", "n", ".", "c", "o", "m", "/">>)
    /\ pc = "offers_fetch" =>
        /\ StartsWith(offer_link, <<"h", "t", "t", "p", "s", ":", "/", "/", "w", "w", "w", ".", "a", "m", "a", "z", "o", "n", ".", "c", "o", "m", "/">>)
        /\ LinksWithHref = {} => offer_link = FallbackUrl(asin)

\* The positions of the digits of a text.
DigitPositions(text) == {k \in 1..Len(text) : IsDigit(text[k])}

\* The only digits of a text form one run of seven or more, and the text has
\* no separator and no decimal point: a long number such as a SKU.
LongRunOnly(text) ==
    LET at == DigitPositions(text)
    IN  /\ Cardinality(at) >= 7
        /\ \A k \in 1..Len(text) :
               (\E a, b \in at : a <= k /\ k <= b) => k \in at
        /\ \A k \in 1..Len(text) : text[k] \notin {".", ","}

\* C13: clean_price gives null for absent or blank input, the trimmed text
\* for a text without digits, and the trimmed text, not a number, for a text
\* whose only digits are one run of seven or more integer digits.
C13_LongRunKept ==
    pc = "price_done" =>
        IF price_text = None \/ Strip(price_text.s) = <<>>
            THEN price_result = None
        ELSE IF DigitPositions(price_text.s) = {} \/ LongRunOnly(price_text.s)
            THEN price_result = Str(Strip(price_text.s))
        ELSE TRUE

\* Tier (a) of the price of a container: the offscreen node, normalized.
TierOffscreen(container) ==
    IF container.offscreen.found
        THEN clean_price(Str(Strip(container.offscreen.text)))
    ELSE None

\* The parts of the price span are a whole amount of digits, with or without
\* thousands separators, and a fraction of two digits.
WholeAndFraction(price_span) ==
    LET whole == Strip(price_span.whole.text)
        fraction == Strip(price_span.fraction.text)
    IN  /\ price_span.found /\ price_span.whole.found
        /\ price_span.fraction.found
        /\ whole # <<>> /\ IsDigit(Head(whole))
        /\ \A k \in 1..Len(whole) : IsDigit(whole[k]) \/ whole[k] = ","
        /\ Len(fraction) = 2 /\ DigitsAt(fraction, 1, 2)

\* The number W.F, in hundredths, separators stripped.
WholeDotFraction(price_span) ==
    100 * DigitsToInt(StripCommas(Strip(price_span.whole.text)))
        + DigitsToInt(Strip(price_span.fraction.text))

\* C14: the price of the container just visited follows the tiers in order:
\* what the offscreen node gives when it gives a price; else, from a whole
\* amount W and a fraction F of two digits, the number W.F with separators
\* stripped; else, without a price span, the first '$' amount of the text,
\* and no price when there is none.
C14_Tiers ==
    pc = "offers_loop" /\ ci > 0 =>
        LET container == offer_containers[ci]
            price == seller_data.price
        IN  IF TierOffscreen(container) # None
                THEN price = TierOffscreen(container)
            ELSE IF WholeAndFraction(container.price_span)
                THEN price = Num(WholeDotFraction(container.price_span))
            ELSE IF ~container.price_span.found
                THEN IF FirstDollarAmount(container.text).found
                         THEN price = clean_price(
                                  Str(FirstDollarAmount(container.text).text))
                     ELSE price = Missing
            ELSE TRUE

\* The vocabulary of conditions, in the order it is searched.
Vocabulary == << <<"N", "e", "w">>, <<"U", "s", "e", "d">>, <<"R", "e", "f", "u", "r", "b", "i", "s", "h", "e", "d">>, <<"C", "o", "l", "l", "e", "c", "t", "i", "b", "l", "e">>, <<"R", "e", "n", "e", "w", "e", "d">> >>

\* The condition a container text asks for: the first word of the
\* vocabulary that occurs in it, whatever the case, or none.
ConditionIs(text, condition) ==
    LET low == Lower(text)
        Occurs(k) == Contains(low, Lower(Vocabulary[k]))
    IN  /\ \A k \in 1..Len(Vocabulary) :
               condition = Str(Vocabulary[k]) <=>
                   Occurs(k) /\ \A j \in 1..(k - 1) : ~Occurs(j)
        /\ condition = Missing <=> \A k \in 1..Len(Vocabulary) : ~Occurs(k)

\* C15: the condition of the record of the container just visited is the
\* first word of the vocabulary New, Used, Refurbished, Collectible, Renewed
\* that occurs in the container text, whatever the case, and is absent when
\* none occurs; no record and no row ever has the condition "Renewed".
C15_Condition ==
    /\ pc = "offers_loop" /\ ci > 0 =>
           ConditionIs(offer_containers[ci].text, seller_data.condition)
    /\ \A k \in 1..Len(sellers_data) :
           sellers_data[k].condition # Str(<<"R", "e", "n", "e", "w", "e", "d">>)
    /\ \A k \in 1..Len(results) :
           results[k].seller_condition # Str(<<"R", "e", "n", "e", "w", "e", "d">>)
    /\ \A k \in 1..Len(all_results) :
           all_results[k].seller_condition # Str(<<"R", "e", "n", "e", "w", "e", "d">>)

\* C15 happens: a container whose text says "Renewed" was accepted, and its
\* record has the condition "New".
C15_Witness ==
    /\ pc = "offers_loop"
    /\ ci > 0
    /\ Contains(offer_containers[ci].text, <<"R", "e", "n", "e", "w", "e", "d">>)
    /\ sellers_data # <<>>
    /\ sellers_data[Len(sellers_data)] = seller_data
    /\ seller_data.condition = Str(<<"N", "e", "w">>)
====
